---- MODULE Spec2Model ----
(***************************************************************************)
(* A model of mandala_grid.py: the GridPosition / MandalaGrid data model,  *)
(* its factory and JSON conversions, its queries, compare_grids and        *)
(* mirror_analysis.                                                        *)
(*                                                                         *)
(* Objects live on a heap: a MandalaGrid holds a list of references to     *)
(* GridPosition objects, as in Python, so that sharing between grids is    *)
(* something the model can express (and refute).                           *)
(*                                                                         *)
(* Representation of values                                                *)
(*   - a bias is an integer h in 0..100 standing for the IEEE-754 double   *)
(*     nearest to h/100 (0.95 is 95).  Order, equality and the sign of a   *)
(*     difference are those of the integers; the one place where rounding  *)
(*     shows, abs(diff) > 0.01 for neighbouring hundredths, is computed    *)
(*     from the table RoundsAbove.                                         *)
(*   - strings are ASCII: the source's non-ASCII literals are written      *)
(*     transliterated ("zh:..." for the *_zh fields, "up"/"down" for the   *)
(*     two arrow markers).                                                 *)
(*   - a JSON object is a function whose DOMAIN is its set of keys, a JSON *)
(*     array a sequence: json.dumps followed by json.load returns such a   *)
(*     value unchanged.                                                    *)
(***************************************************************************)
EXTENDS Integers, Sequences, FiniteSets, TLC

VARIABLES heap, grids, res, nops

vars == <<heap, grids, res, nops>>

\* Bounds of the model.
MaxOps == 3
MaxN == 3

Min(a, b) == IF a <= b THEN a ELSE b

Abs(a) == IF a < 0 THEN -a ELSE a

(***************************************************************************)
(* GridPosition                                                            *)
(***************************************************************************)

\* The dataclass fields without a default, and all the fields.
RequiredFields ==
  {"index", "label", "label_zh", "consciousness", "consciousness_zh",
   "function", "bias"}

PositionFields == RequiredFields \cup {"description"}

\* GridPosition(index, label, ..., bias, description): the positional
\* constructor.
GridPosition(index, label, label_zh, consciousness, consciousness_zh, function, bias, description) ==
  [index |-> index, label |-> label, label_zh |-> label_zh,
   consciousness |-> consciousness, consciousness_zh |-> consciousness_zh,
   function |-> function, bias |-> bias, description |-> description]

\* GridPosition(**p): TypeError when p has a key that is no field or lacks a
\* field without a default; description defaults to "".
GridPositionFromDict(p) ==
  IF ~(DOMAIN p \subseteq PositionFields) \/ ~(RequiredFields \subseteq DOMAIN p)
  THEN [ok |-> FALSE, err |-> "TypeError"]
  ELSE [ok |-> TRUE,
        value |-> GridPosition(p["index"], p["label"], p["label_zh"],
                               p["consciousness"], p["consciousness_zh"],
                               p["function"], p["bias"],
                               IF "description" \in DOMAIN p
                               THEN p["description"] ELSE "")]

\* A to_dict that leaves the defaulted field out.
asdict_no_description(p) == [k \in RequiredFields |-> p[k]]

\* GridPosition.to_dict: dataclasses.asdict, every field under its name.
asdict(p) == [k \in PositionFields |-> p[k]]

(***************************************************************************)
(* MandalaGrid.default: the canonical data                                 *)
(***************************************************************************)

DefaultPositions ==
  << GridPosition(0, "Center Observer", "zh:Center Observer", "alayavijnana",
                  "zh:8th", "core_identity", 100,
                  "The silent witness. Observes all positions without attachment."),
     GridPosition(1, "Logic Gate", "zh:Logic Gate", "manovijnana",
                  "zh:6th", "logical_consistency", 90,
                  "Rejects any output that contradicts established logic chains."),
     GridPosition(2, "Evidence Filter", "zh:Evidence Filter", "caksur-vijnana",
                  "zh:eye", "critical_evidence", 80,
                  "Demands verifiable evidence before accepting claims."),
     GridPosition(3, "Minimal Reasoner", "zh:Minimal Reasoner", "ghrana-vijnana",
                  "zh:nose", "minimal_reasoning", 70,
                  "Strips arguments to their simplest valid form."),
     GridPosition(4, "Pragmatic Executor", "zh:Pragmatic Executor", "kaya-vijnana",
                  "zh:body", "practical_execution", 60,
                  "Converts reasoning into actionable steps."),
     GridPosition(5, "Precision Output", "zh:Precision Output", "jihva-vijnana",
                  "zh:tongue", "precise_output", 80,
                  "Ensures output matches the required format and depth."),
     GridPosition(6, "Boundary Sentinel", "zh:Boundary Sentinel", "srotra-vijnana",
                  "zh:ear", "cognitive_boundary", 90,
                  "Flags when reasoning exceeds model capabilities or data."),
     GridPosition(7, "Deconstructor", "zh:Deconstructor", "manas",
                  "zh:7th", "deconstruction", 95,
                  "Actively seeks counter-examples and hidden assumptions."),
     GridPosition(8, "Legacy Keeper", "zh:Legacy Keeper", "beyond-eight",
                  "zh:legacy", "core_record_relay", 50,
                  "Ensures continuity across sessions and generations.") >>

DefaultName == "quan-default"

DefaultVersion == "2.0"

DefaultDescription ==
  "The canonical Quan personality grid with Eight Consciousnesses mapping."

(***************************************************************************)
(* The heap                                                                *)
(***************************************************************************)

\* Constructing the objects of `values` in order: each gets a fresh
\* reference, the next free heap address.
FreshRefs(h, values) == [i \in 1..Len(values) |-> Len(h) + i]

\* The value of grid g: its fields with every position reference replaced
\* by the object it points to.
GridValue(h, g) ==
  [positions |-> [i \in 1..Len(g.positions) |-> h[g.positions[i]]],
   version |-> g.version, name |-> g.name, description |-> g.description]

(***************************************************************************)
(* MandalaGrid: I/O                                                        *)
(***************************************************************************)

\* MandalaGrid.to_dict: the grid under the key "mandala_grid", every
\* position as its dict.
to_dict(h, g) ==
  [mandala_grid |->
     [version |-> g.version,
      name |-> g.name,
      description |-> g.description,
      positions |-> [i \in 1..Len(g.positions) |-> asdict(h[g.positions[i]])]]]

\* [GridPosition(**p) for p in ps]: the objects built so far, or the error
\* of the first p that cannot be built.
RECURSIVE BuildPositions(_, _, _)
BuildPositions(ps, i, built) ==
  IF i > Len(ps) THEN [ok |-> TRUE, value |-> built]
  ELSE LET r == GridPositionFromDict(ps[i])
       IN IF ~r.ok THEN r
          ELSE BuildPositions(ps, i + 1, Append(built, r.value))

\* dict.get(key, default)
DictGet(d, key, dflt) == IF key \in DOMAIN d THEN d[key] ELSE dflt

\* A from_json that reads the grid fields at the top level even when the
\* file has the "mandala_grid" key, and leaves the name to the dataclass
\* default.
from_json_top_level(data) ==
  IF "positions" \notin DOMAIN data
  THEN [ok |-> FALSE, err |-> "KeyError"]
  ELSE LET built == BuildPositions(data["positions"], 1, <<>>)
       IN IF ~built.ok THEN built
          ELSE [ok |-> TRUE,
                value |-> [positions |-> built.value,
                           version |-> DictGet(data, "version", "2.0"),
                           name |-> DictGet(data, "name", "default"),
                           description |-> DictGet(data, "description", "")]]

\* MandalaGrid.from_json on the parsed content `data` of the file: the
\* grid's field values, or the exception raised.
from_json(data) ==
  LET mg == DictGet(data, "mandala_grid", data)
  IN IF "positions" \notin DOMAIN mg
     THEN [ok |-> FALSE, err |-> "KeyError"]
     ELSE LET built == BuildPositions(mg["positions"], 1, <<>>)
          IN IF ~built.ok THEN built
             ELSE [ok |-> TRUE,
                   value |-> [positions |-> built.value,
                              version |-> DictGet(mg, "version", "2.0"),
                              name |-> DictGet(mg, "name", "custom"),
                              description |-> DictGet(mg, "description", "")]]

(***************************************************************************)
(* MandalaGrid: queries                                                    *)
(***************************************************************************)

\* MandalaGrid.get: the first position whose index matches, KeyError when
\* the loop ends without one.
RECURSIVE GetFrom(_, _, _, _)
GetFrom(h, refs, index, i) ==
  IF i > Len(refs) THEN [ok |-> FALSE, err |-> "KeyError"]
  ELSE IF h[refs[i]].index = index THEN [ok |-> TRUE, value |-> refs[i]]
  ELSE GetFrom(h, refs, index, i + 1)

\* A get whose loop misses the first position.
get_skip_first(h, g, index) == GetFrom(h, g.positions, index, 2)

get(h, g, index) == GetFrom(h, g.positions, index, 1)

Reverse(s) == [i \in 1..Len(s) |-> s[Len(s) + 1 - i]]

\* x placed into s (ascending by bias) behind every element whose bias is
\* not greater: the step of a stable sort.
RECURSIVE InsertByBias(_, _, _)
InsertByBias(h, x, s) ==
  IF s = <<>> THEN <<x>>
  ELSE IF h[x].bias < h[Head(s)].bias THEN <<x>> \o s
  ELSE <<Head(s)>> \o InsertByBias(h, x, Tail(s))

RECURSIVE SortByBias(_, _, _)
SortByBias(h, s, acc) ==
  IF s = <<>> THEN acc
  ELSE SortByBias(h, Tail(s), InsertByBias(h, Head(s), acc))

\* A descending sort made by reversing an ascending one: equal keys come
\* out in reverse order.
sorted_unstable(h, refs, reverse) ==
  IF reverse THEN Reverse(SortByBias(h, refs, <<>>))
  ELSE SortByBias(h, refs, <<>>)

\* sorted(refs, key=lambda p: p.bias, reverse=reverse): Python's sort is
\* stable, and with reverse=True it reverses the list, sorts it stably and
\* reverses the result, so that equal keys keep their original order.
sorted(h, refs, reverse) ==
  IF reverse THEN Reverse(SortByBias(h, Reverse(refs), <<>>))
  ELSE SortByBias(h, refs, <<>>)

\* s[:n] for n >= 0
Prefix(s, n) == SubSeq(s, 1, Min(n, Len(s)))

\* [p for p in self.positions if p.index != 0]
non_center(h, g) == SelectSeq(g.positions, LAMBDA r : h[r].index # 0)

\* MandalaGrid.top_n
top_n(h, g, n) == Prefix(sorted(h, non_center(h, g), TRUE), n)

\* MandalaGrid.personality_signature: the name and the label(bias) parts.
personality_signature(h, g) ==
  LET top == top_n(h, g, 3)
  IN [name |-> g.name,
      parts |-> [i \in 1..Len(top) |->
                   [label |-> h[top[i]].label, bias |-> h[top[i]].bias]]]

(***************************************************************************)
(* Floating point                                                          *)
(***************************************************************************)

\* The hundredths m in 0..99 for which the double subtraction
\* (m+1)/100 - m/100 gives a result greater than the double 0.01
\* (0.9 - 0.89 = 0.010000000000000009 is; 0.02 - 0.01 = 0.01 is not).
RoundsAbove ==
  {
   3, 4, 6, 9, 12, 13, 15, 16, 18, 19, 21, 22, 24, 25, 26, 27,
   29, 30, 31, 32, 33, 35, 36, 37, 38, 39, 41, 42, 43, 44, 45, 47,
   48, 49, 50, 51, 52, 53, 54, 55, 57, 58, 59, 60, 61, 62, 63, 64,
   65, 66, 67, 69, 70, 71, 72, 73, 74, 75, 76, 77, 78, 79, 80, 82,
   83, 84, 85, 86, 87, 88, 89, 90, 91, 92, 94, 95, 96, 97, 98, 99 }

\* abs(pa.bias - pb.bias) > 0.01 on the doubles nearest a/100 and b/100.
DiffExceeds(a, b) ==
  LET d == Abs(a - b)
  IN d >= 2 \/ (d = 1 /\ Min(a, b) \in RoundsAbove)

\* f"{x:.2f}" of the double nearest h/100 (h >= 0): the digits before and
\* after the point.
Fmt2(h) == [units |-> h \div 100, cents |-> h % 100]

(***************************************************************************)
(* compare_grids                                                           *)
(***************************************************************************)

\* The marker of a diff line: "up" stands for the source's upward arrow,
\* "down" for its downward arrow.
Arrow(diff) == IF diff > 0 THEN "up" ELSE "down"

\* A diff line showing b's bias first.
DiffLine_swapped(pa, pb) ==
  [index |-> pa.index, label |-> pa.label,
   from |-> Fmt2(pb.bias), to |-> Fmt2(pa.bias),
   arrow |-> Arrow(pa.bias - pb.bias),
   delta |-> Fmt2(Abs(pa.bias - pb.bias))]

\* One diff line: "  Position {index} ({label}): {a:.2f} -> {b:.2f} [{arrow}{|diff|:.2f}]"
DiffLine(pa, pb) ==
  [index |-> pa.index, label |-> pa.label,
   from |-> Fmt2(pa.bias), to |-> Fmt2(pb.bias),
   arrow |-> Arrow(pa.bias - pb.bias),
   delta |-> Fmt2(Abs(pa.bias - pb.bias))]

\* The loop over a.positions: the diff lines so far, or the KeyError of the
\* first b.get(pa.index) that fails.
RECURSIVE CompareLoop(_, _, _, _, _)
CompareLoop(h, a, b, i, lines) ==
  IF i > Len(a.positions) THEN [ok |-> TRUE, value |-> lines]
  ELSE LET pa == h[a.positions[i]]
           r == get(h, b, pa.index)
       IN IF ~r.ok THEN r
          ELSE LET pb == h[r.value]
               IN CompareLoop(h, a, b, i + 1,
                              IF DiffExceeds(pa.bias, pb.bias)
                              THEN Append(lines, DiffLine(pa, pb))
                              ELSE lines)

\* compare_grids: the header, the diff lines and the two signatures, or the
\* exception raised.
compare_grids(h, a, b) ==
  LET r == CompareLoop(h, a, b, 1, <<>>)
  IN IF ~r.ok THEN r
     ELSE [ok |-> TRUE,
           header |-> <<a.name, b.name>>,
           lines |-> r.value,
           signatures |-> <<personality_signature(h, a),
                            personality_signature(h, b)>>]

(***************************************************************************)
(* mirror_analysis                                                         *)
(***************************************************************************)

\* mirror_analysis: the positions listed as strongest and as deprioritized
\* patterns and the center, or the KeyError of grid.get(0).
mirror_analysis(h, g) ==
  LET top == top_n(h, g, 3)
      bottom == Prefix(sorted(h, non_center(h, g), FALSE), 2)
      center == get(h, g, 0)
  IN IF ~center.ok THEN center
     ELSE [ok |-> TRUE, top |-> top, bottom |-> bottom,
           center |-> center.value]

(***************************************************************************)
(* Inputs                                                                  *)
(***************************************************************************)

\* The dict of the canonical position with index i.
D(i) == asdict(DefaultPositions[i + 1])

\* Dict d without key k.
Without(d, k) == [x \in DOMAIN d \ {k} |-> d[x]]

\* A file without the "positions" key.
DocNoPositions == [mandala_grid |-> [name |-> "broken", version |-> "2.0"]]

\* A file whose second position lacks the required field "bias".
DocMissingField ==
  [mandala_grid |->
     [name |-> "partial", positions |-> <<D(0), Without(D(1), "bias")>>]]

\* A loose file: the grid fields at the top level, no version, name or
\* description, nine positions with indices 0 to 8 whose non-center biases
\* are all 0.5, the last two without a description.
DocLoose ==
  [positions |->
     [i \in 1..9 |->
        LET d == IF i = 1 THEN D(0) ELSE [D(i - 1) EXCEPT !["bias"] = 50]
        IN IF i >= 8 THEN Without(d, "description") ELSE d]]

\* A file with three positions, two of them with index 1, and with grid
\* fields at the top level beside the "mandala_grid" key.
DocDup ==
  [mandala_grid |->
     [version |-> "1.0", name |-> "dup", description |-> "two ones",
      positions |-> <<D(0), D(1), [D(1) EXCEPT !["bias"] = 95]>>],
   name |-> "outer",
   positions |-> <<>>]

\* A file with two positions and no index 0.
DocNoCenter ==
  [mandala_grid |-> [name |-> "rim", positions |-> <<D(7), D(8)>>]]

HandDocs == {DocNoPositions, DocMissingField, DocLoose, DocDup, DocNoCenter}

\* The list positions a test may write a bias to, and the values written;
\* the name written; the indices asked of get.
MutPositions == {3, 8}

BiasValues == {50, 79}

NewNames == {"modified"}

GetArgs == {0, 7, 99}

(***************************************************************************)
(* The state machine                                                       *)
(***************************************************************************)

Init ==
  /\ heap = <<>>
  /\ grids = <<>>
  /\ res = [op |-> "init"]
  /\ nops = 0

GridIds == 1..Len(grids)

\* A default() that hands out the position list of an earlier canonical
\* grid instead of building its own.
default_shared(h) ==
  LET made == {i \in 1..Len(grids) :
                 /\ Len(grids[i].positions) = 9
                 /\ h[grids[i].positions[1]].label = "Center Observer"}
  IN IF made = {}
     THEN [heap |-> h \o DefaultPositions,
           grid |-> [positions |-> FreshRefs(h, DefaultPositions),
                     version |-> DefaultVersion,
                     name |-> DefaultName,
                     description |-> DefaultDescription]]
     ELSE [heap |-> h,
           grid |-> [positions |-> grids[CHOOSE i \in made : TRUE].positions,
                     version |-> DefaultVersion,
                     name |-> DefaultName,
                     description |-> DefaultDescription]]

\* MandalaGrid.default(): nine fresh GridPosition objects in a fresh grid;
\* version is the dataclass default.
default(h) ==
  [heap |-> h \o DefaultPositions,
   grid |-> [positions |-> FreshRefs(h, DefaultPositions),
             version |-> DefaultVersion,
             name |-> DefaultName,
             description |-> DefaultDescription]]

Default ==
  /\ nops < MaxOps
  /\ LET r == default(heap)
     IN /\ heap' = r.heap
        /\ grids' = Append(grids, r.grid)
  /\ res' = [op |-> "default", grid |-> Len(grids) + 1]
  /\ nops' = nops + 1

\* MandalaGrid.from_json(path), the file holding `data`: a fresh grid of
\* fresh objects, or the exception and nothing else.
FromJson(data) ==
  LET r == from_json(data)
  IN IF r.ok
     THEN /\ nops < MaxOps
          /\ heap' = heap \o r.value.positions
          /\ grids' = Append(grids,
                             [r.value EXCEPT
                                !.positions = FreshRefs(heap, r.value.positions)])
          /\ res' = [op |-> "from_json", data |-> data, ok |-> TRUE,
                     grid |-> Len(grids) + 1]
          /\ nops' = nops + 1
     ELSE /\ res' = [op |-> "from_json", data |-> data, ok |-> FALSE,
                     err |-> r.err]
          /\ UNCHANGED <<heap, grids, nops>>

\* grid.name = name
SetName(g, name) ==
  /\ nops < MaxOps
  /\ grids' = [grids EXCEPT ![g].name = name]
  /\ res' = [op |-> "set_name", grid |-> g]
  /\ nops' = nops + 1
  /\ UNCHANGED heap

\* grid.positions[k - 1].bias = bias (k counts from 1)
SetBias(g, k, bias) ==
  /\ nops < MaxOps
  /\ k <= Len(grids[g].positions)
  /\ heap' = [heap EXCEPT ![grids[g].positions[k]].bias = bias]
  /\ res' = [op |-> "set_bias", grid |-> g, pos |-> k]
  /\ nops' = nops + 1
  /\ UNCHANGED grids

\* grid.get(index)
Get(g, index) ==
  /\ res' = [op |-> "get", grid |-> g, index |-> index,
             out |-> get(heap, grids[g], index)]
  /\ UNCHANGED <<heap, grids, nops>>

\* grid.top_n(n)
TopN(g, n) ==
  /\ res' = [op |-> "top_n", grid |-> g, n |-> n,
             out |-> top_n(heap, grids[g], n)]
  /\ UNCHANGED <<heap, grids, nops>>

\* compare_grids(a, b)
Compare(a, b) ==
  /\ res' = [op |-> "compare_grids", a |-> a, b |-> b,
             out |-> compare_grids(heap, grids[a], grids[b])]
  /\ UNCHANGED <<heap, grids, nops>>

\* mirror_analysis(grid)
Mirror(g) ==
  /\ res' = [op |-> "mirror_analysis", grid |-> g,
             out |-> mirror_analysis(heap, grids[g])]
  /\ UNCHANGED <<heap, grids, nops>>

Next ==
  \/ Default
  \/ \E data \in HandDocs \cup {to_dict(heap, grids[g]) : g \in GridIds} :
       FromJson(data)
  \/ \E g \in GridIds, name \in NewNames : SetName(g, name)
  \/ \E g \in GridIds, k \in MutPositions, b \in BiasValues : SetBias(g, k, b)
  \/ \E g \in GridIds, i \in GetArgs : Get(g, i)
  \/ \E g \in GridIds, n \in 0..MaxN : TopN(g, n)
  \/ \E a \in GridIds, b \in GridIds : Compare(a, b)
  \/ \E g \in GridIds : Mirror(g)

Spec == Init /\ [][Next]_vars

(***************************************************************************)
(* Properties                                                              *)
(***************************************************************************)

\* The list positions (from 1) of grid g, those off the center, and the
\* place of reference r in g's list.
ListPositions(g) == 1..Len(g.positions)

OffCenter(g) == {k \in ListPositions(g) : heap[g.positions[k]].index # 0}

PlaceOf(g, r) == CHOOSE k \in ListPositions(g) : g.positions[k] = r

Range(s) == {s[i] : i \in 1..Len(s)}

BiasOf(r) == heap[r].bias

\* C1: round trip. Loading what to_dict made of a grid g gives a grid equal
\* to g field for field: name, version, description and the positions, in
\* order, with all eight fields.
C1_RoundTrip ==
  \A g \in GridIds :
    (res.op = "from_json" /\ res.data = to_dict(heap, grids[g]))
      => /\ res.ok
         /\ GridValue(heap, grids[res.grid]) = GridValue(heap, grids[g])

\* A grid that was changed after its construction (position 7 no longer at
\* 0.95, renamed or not) has been serialized and loaded back as another grid.
C1_Witness ==
  /\ res.op = "from_json"
  /\ res.ok
  /\ \E g \in GridIds \ {res.grid} :
       /\ res.data = to_dict(heap, grids[g])
       /\ Len(grids[g].positions) = 9
       /\ heap[grids[g].positions[8]].bias = 50

\* C2: top_n(n), n >= 0, returns min(n, number of non-center positions)
\* positions of the grid, none with index 0, no position twice, in
\* non-increasing bias order; every returned position has a bias at least
\* that of every non-center position not returned; and among equal biases
\* the position earlier in the grid's list comes first and is the one kept.
C2_TopN ==
  res.op = "top_n" =>
    LET g == grids[res.grid]
        out == res.out
    IN /\ Len(out) = Min(res.n, Cardinality(OffCenter(g)))
       /\ \A i \in 1..Len(out) :
            \E k \in OffCenter(g) : g.positions[k] = out[i]
       /\ \A i, j \in 1..Len(out) :
            i < j =>
              /\ out[i] # out[j]
              /\ BiasOf(out[i]) >= BiasOf(out[j])
              /\ BiasOf(out[i]) = BiasOf(out[j])
                   => PlaceOf(g, out[i]) < PlaceOf(g, out[j])
       /\ \A i \in 1..Len(out) :
            \A k \in OffCenter(g) :
              g.positions[k] \notin Range(out) =>
                /\ BiasOf(out[i]) >= BiasOf(g.positions[k])
                /\ BiasOf(out[i]) = BiasOf(g.positions[k])
                     => PlaceOf(g, out[i]) < k

\* top_n(2) of a nine-position grid cut a tie: the second position returned
\* has the bias of a non-center position that was not returned.
C2_Witness ==
  /\ res.op = "top_n"
  /\ res.n = 2
  /\ Len(res.out) = 2
  /\ \E k \in OffCenter(grids[res.grid]) :
       /\ grids[res.grid].positions[k] \notin Range(res.out)
       /\ BiasOf(grids[res.grid].positions[k]) = BiasOf(res.out[2])
       /\ BiasOf(res.out[1]) > BiasOf(res.out[2])

\* Grid b is a copy of grid a (the name aside) but for list position k,
\* whose bias alone differs and is lower in b by more than 0.01.
LoweredCopy(a, b, k) ==
  /\ Len(a.positions) = Len(b.positions)
  /\ a.version = b.version
  /\ a.description = b.description
  /\ k \in ListPositions(a)
  /\ \A i \in ListPositions(a) \ {k} :
       heap[a.positions[i]] = heap[b.positions[i]]
  /\ heap[a.positions[k]] =
       [heap[b.positions[k]] EXCEPT !.bias = heap[a.positions[k]].bias]
  /\ heap[a.positions[k]].bias > heap[b.positions[k]].bias
  /\ DiffExceeds(heap[a.positions[k]].bias, heap[b.positions[k]].bias)

\* A diff line for position pa showing pa's bias, then pb's, with `arrow`.
HasLine(lines, pa, pb, arrow) ==
  \E i \in 1..Len(lines) :
    /\ lines[i].index = pa.index
    /\ lines[i].arrow = arrow
    /\ lines[i].from = Fmt2(pa.bias)
    /\ lines[i].to = Fmt2(pb.bias)

\* C3 as stated: when b is a copy of a with one position's bias lowered by
\* more than 0.01, compare_grids(a, b) has for that index a line with the
\* down marker showing a's bias followed by b's.
C3_DownMarker ==
  res.op = "compare_grids" =>
    \A k \in ListPositions(grids[res.a]) :
      LoweredCopy(grids[res.a], grids[res.b], k) =>
        /\ res.out.ok
        /\ HasLine(res.out.lines, heap[grids[res.a].positions[k]],
                   heap[grids[res.b].positions[k]], "down")

\* C3 amended: in that case, the lowered position being the one get returns
\* for its index (the first with that index), the line for that index
\* carries the up marker (diff = a.bias - b.bias > 0) and shows a's bias
\* followed by b's.
C3_UpMarker ==
  res.op = "compare_grids" =>
    \A k \in ListPositions(grids[res.a]) :
      (/\ LoweredCopy(grids[res.a], grids[res.b], k)
       /\ get(heap, grids[res.a],
              heap[grids[res.a].positions[k]].index).value
            = grids[res.a].positions[k])
        => /\ res.out.ok
           /\ HasLine(res.out.lines, heap[grids[res.a].positions[k]],
                      heap[grids[res.b].positions[k]], "up")

\* The canonical grid was compared with a copy whose position 7 was set
\* from 0.95 to 0.50.
C3_Witness ==
  /\ res.op = "compare_grids"
  /\ LoweredCopy(grids[res.a], grids[res.b], 8)
  /\ heap[grids[res.a].positions[8]].index = 7
  /\ heap[grids[res.a].positions[8]].bias = 95
  /\ heap[grids[res.b].positions[8]].bias = 50
  /\ res.out.ok

\* C4: compare_grids(a, b) has one diff line for a position of a exactly
\* when its bias and the bias b holds for its index differ by more than
\* 0.01, in a's order; a grid compared with itself gives no diff line; two
\* grids that differ in one position's bias alone, by more than 0.01, give
\* exactly one.
C4_DiffLines ==
  (res.op = "compare_grids" /\ res.out.ok) =>
    LET a == grids[res.a]
        b == grids[res.b]
        changed == SelectSeq(a.positions,
                     LAMBDA r : DiffExceeds(heap[r].bias,
                                  heap[get(heap, b, heap[r].index).value].bias))
    IN /\ Len(res.out.lines) = Len(changed)
       /\ \A i \in 1..Len(changed) :
            res.out.lines[i].index = heap[changed[i]].index
       /\ res.a = res.b => res.out.lines = <<>>
       /\ (\E k \in ListPositions(a) :
             LoweredCopy(a, b, k) \/ LoweredCopy(b, a, k))
            => Len(res.out.lines) = 1

\* C5: get(index) returns a position of the grid with that index whenever
\* there is one and fails with KeyError exactly when there is none;
\* compare_grids(a, b) fails with KeyError, and gives no text, whenever an
\* index of a is missing in b.
C5_NotFound ==
  /\ res.op = "get" =>
       LET g == grids[res.grid]
           present == \E k \in ListPositions(g) :
                        heap[g.positions[k]].index = res.index
       IN /\ present =>
               /\ res.out.ok
               /\ res.out.value \in Range(g.positions)
               /\ heap[res.out.value].index = res.index
          /\ ~present <=> (~res.out.ok /\ res.out.err = "KeyError")
  /\ res.op = "compare_grids" =>
       LET a == grids[res.a]
           b == grids[res.b]
       IN (\E k \in ListPositions(a) :
             \A j \in ListPositions(b) :
               heap[b.positions[j]].index # heap[a.positions[k]].index)
            => /\ ~res.out.ok
               /\ res.out.err = "KeyError"
               /\ DOMAIN res.out = {"ok", "err"}

\* compare_grids was called with a grid a holding an index that b lacks,
\* though b holds a's first index.
C5_Witness ==
  /\ res.op = "compare_grids"
  /\ ~res.out.ok
  /\ get(heap, grids[res.b], heap[grids[res.a].positions[1]].index).ok

\* C6: a grid made by default() or by a from_json that succeeded holds
\* exactly nine positions with pairwise distinct indices, for default()
\* the indices 0 to 8.
C6_NineDistinct ==
  (res.op = "default" \/ (res.op = "from_json" /\ res.ok)) =>
    LET g == grids[res.grid]
    IN /\ Len(g.positions) = 9
       /\ \A i, j \in ListPositions(g) :
            i # j => heap[g.positions[i]].index # heap[g.positions[j]].index
       /\ res.op = "default" =>
            {heap[g.positions[i]].index : i \in ListPositions(g)} = 0..8

\* The object under "mandala_grid" when the file has that key, the file's
\* top-level object otherwise.
GridObject(data) ==
  IF "mandala_grid" \in DOMAIN data THEN data["mandala_grid"] ELSE data

\* C7: from_json fails (KeyError or TypeError), returning no grid and
\* leaving no position object behind, when the grid object lacks
\* "positions" or a position lacks one of the seven required fields; when
\* it succeeds, version, name and description are those of the grid object,
\* "2.0", "custom" and "" standing in for a missing one, and the positions
\* are those listed under the grid object.
C7_FromJson ==
  /\ \A r \in 1..Len(heap) : \E g \in GridIds : r \in Range(grids[g].positions)
  /\ res.op = "from_json" =>
       LET mg == GridObject(res.data)
           malformed ==
             \/ "positions" \notin DOMAIN mg
             \/ \E i \in 1..Len(mg["positions"]) :
                  ~(RequiredFields \subseteq DOMAIN mg["positions"][i])
       IN /\ malformed =>
               /\ ~res.ok
               /\ res.err \in {"KeyError", "TypeError"}
               /\ "grid" \notin DOMAIN res
          /\ res.ok =>
               LET g == grids[res.grid]
               IN /\ g.version =
                       (IF "version" \in DOMAIN mg THEN mg["version"] ELSE "2.0")
                  /\ g.name =
                       (IF "name" \in DOMAIN mg THEN mg["name"] ELSE "custom")
                  /\ g.description =
                       (IF "description" \in DOMAIN mg
                        THEN mg["description"] ELSE "")
                  /\ Len(g.positions) = Len(mg["positions"])
                  /\ \A i \in ListPositions(g) :
                       \A f \in RequiredFields :
                         heap[g.positions[i]][f] = mg["positions"][i][f]

\* A file whose second position lacks a required field was refused, its
\* first position being complete.
C7_Witness ==
  /\ res.op = "from_json"
  /\ ~res.ok
  /\ "positions" \in DOMAIN GridObject(res.data)
  /\ RequiredFields \subseteq DOMAIN GridObject(res.data)["positions"][1]

\* The position of grid g with index i.
AtIndex(h, g, i) == h[get(h, g, i).value]

\* C8: grids share no state. A step leaves every grid's value as it was,
\* but for the grid whose name or bias the step writes; and default()
\* returns the canonical values (name "quan-default", index 7 at 0.95, the
\* center at 1.0) whatever was done to other grids before.
C8_NoSharing ==
  [][ /\ \A g \in GridIds :
           \/ GridValue(heap', grids'[g]) = GridValue(heap, grids[g])
           \/ res'.op \in {"set_name", "set_bias"} /\ res'.grid = g
      /\ res'.op = "default" =>
           /\ grids'[res'.grid].name = "quan-default"
           /\ AtIndex(heap', grids'[res'.grid], 7).bias = 95
           /\ AtIndex(heap', grids'[res'.grid], 0).bias = 100 ]_vars

\* default() has just returned a grid while an earlier default grid has its
\* position 7 written to another bias.
C8_Witness ==
  /\ res.op = "default"
  /\ \E g \in GridIds \ {res.grid} :
       /\ grids[g].name = "quan-default"
       /\ AtIndex(heap, grids[g], 7).bias # 95

\* C9: mirror_analysis(grid) lists as strongest patterns top_n(3), in that
\* order, and as deprioritized patterns the two non-center positions of
\* lowest bias, lowest first, earlier-defined first among equals, every one
\* of them at most as high as every non-center position not listed; index 0
\* is in neither list and is the center reported.
C9_Mirror ==
  res.op = "mirror_analysis" =>
    LET g == grids[res.grid]
        out == res.out
    IN /\ out.ok
       /\ out.top = top_n(heap, g, 3)
       /\ Len(out.bottom) = 2
       /\ \A i \in 1..2 : \E k \in OffCenter(g) : g.positions[k] = out.bottom[i]
       /\ out.bottom[1] # out.bottom[2]
       /\ BiasOf(out.bottom[1]) <= BiasOf(out.bottom[2])
       /\ BiasOf(out.bottom[1]) = BiasOf(out.bottom[2])
            => PlaceOf(g, out.bottom[1]) < PlaceOf(g, out.bottom[2])
       /\ \A i \in 1..2 :
            \A k \in OffCenter(g) :
              g.positions[k] \notin Range(out.bottom) =>
                /\ BiasOf(out.bottom[i]) <= BiasOf(g.positions[k])
                /\ BiasOf(out.bottom[i]) = BiasOf(g.positions[k])
                     => PlaceOf(g, out.bottom[i]) < k
       /\ heap[out.center].index = 0
       /\ \A r \in Range(out.top) \cup Range(out.bottom) : heap[r].index # 0

\* C10: for a grid holding the nine indices 0 to 8, whatever the biases, no
\* position is listed by mirror_analysis both among the strongest and among
\* the deprioritized patterns.
C10_Disjoint ==
  (/\ res.op = "mirror_analysis"
   /\ Len(grids[res.grid].positions) = 9
   /\ \A i \in 0..8 :
        \E k \in ListPositions(grids[res.grid]) :
          heap[grids[res.grid].positions[k]].index = i)
    => /\ res.out.ok
       /\ Range(res.out.top) \cap Range(res.out.bottom) = {}

====
